---- MODULE Spec2Model ----
(***************************************************************************)
(* Model of ldapauth.cc: the authenticate() and search() bindings, the     *)
(* libeio worker tasks EIO_Authenticate / EIO_Search (with the recursive   *)
(* SearchAncestors walk) and the main-loop completions                     *)
(* EIO_AfterAuthenticate / EIO_AfterSearch.                                *)
(*                                                                         *)
(* Two kinds of context exist: the single main thread (entry calls and     *)
(* completions, tracked by mainpc) and the worker threads of the libeio    *)
(* pool (one task per request, interleaving freely).                       *)
(***************************************************************************)
EXTENDS Integers, Sequences, FiniteSets, TLC

\* ------------------------------------------------------------------ bounds
\* Number of request records the entry calls may create in one run.
MaxReq == 2
\* Number of nested SearchAncestors frames the worker's stack can hold; one
\* more nested call overflows the stack and kills the process.
StackLimit == 4

ReqIds == 1..MaxReq

\* ------------------------------------------------------- JavaScript values
Undefined == [t |-> "undefined"]
JsString(s) == [t |-> "string", v |-> s]
JsInt32(n) == [t |-> "int32", v |-> n]
JsBoolean(b) == [t |-> "boolean", v |-> b]
JsFunction(f) == [t |-> "function", v |-> f]
JsError(m) == [t |-> "error", v |-> m]
JsArray(s) == [t |-> "array", v |-> s]
JsObject(p) == [t |-> "object", v |-> p]

IsString(x) == x.t = "string"
IsInt32(x) == x.t = "int32"
IsFunction(x) == x.t = "function"

\* args[i] of v8::Arguments, 0-based as in the source; an index past the
\* supplied arguments reads as undefined.
Arg(args, i) == IF i < Len(args) THEN args[i + 1] ELSE Undefined

\* Decimal text of a small non-negative integer.
DecimalString(n) ==
  CASE n = 0 -> "0"
    [] n = 389 -> "389"
    [] n = 636 -> "636"
    [] OTHER -> "NaN"

\* String::Utf8Value: the JavaScript ToString conversion of the value.
Utf8Value(x) ==
  CASE x.t = "string" -> x.v
    [] x.t = "int32" -> DecimalString(x.v)
    [] x.t = "undefined" -> "undefined"
    [] x.t = "function" -> "function () {}"
    [] OTHER -> "[object Object]"

\* Value::Int32Value: the JavaScript ToInt32 conversion of the value.
Int32Value(x) ==
  CASE x.t = "int32" -> x.v
    [] x.t = "string" /\ x.v = "389" -> 389
    [] x.t = "string" /\ x.v = "636" -> 636
    [] OTHER -> 0

\* ------------------------------------------------ the directory (mock LDAP)
\* ldap_open: a handle is returned only for the reachable server.
ldap_open(host, port) == host = "up" /\ port = 389

\* ldap_simple_bind_s: LDAP_SUCCESS only for a known user with its password.
ldap_simple_bind_s(username, password) ==
  \/ username = "alice" /\ password = "pw1"
  \/ username = "bob" /\ password = "pw2"

NoEntry == [found |-> FALSE, attrs |-> <<>>]
Entry(attrs) == [found |-> TRUE, attrs |-> attrs]

\* The entries of the directory, by distinguished name.  Attributes are kept
\* in the order the server returns them.
\*   chain   A -> B -> C            (C has no name attribute)
\*   cycle   P -> Q -> R -> P
\*   diamond U -> V -> Z, U -> W -> Z
\*   M is a member of "ghost", which has no entry
\*   E is a person in no group: cn with one value, then mail with two
DirEntry(dn) ==
  CASE dn = "A" -> Entry(<< <<"memberOf", <<"B">> >> >>)
    [] dn = "B" -> Entry(<< <<"name", <<"nB", "nB2">> >>, <<"memberOf", <<"C">> >> >>)
    [] dn = "C" -> Entry(<< <<"cn", <<"C">> >> >>)
    [] dn = "P" -> Entry(<< <<"memberOf", <<"Q">> >> >>)
    [] dn = "Q" -> Entry(<< <<"name", <<"nQ">> >>, <<"memberOf", <<"R">> >> >>)
    [] dn = "R" -> Entry(<< <<"name", <<"nR">> >>, <<"memberOf", <<"P">> >> >>)
    [] dn = "U" -> Entry(<< <<"memberOf", <<"V", "W">> >> >>)
    [] dn = "V" -> Entry(<< <<"name", <<"nV">> >>, <<"memberOf", <<"Z">> >> >>)
    [] dn = "W" -> Entry(<< <<"name", <<"nW">> >>, <<"memberOf", <<"Z">> >> >>)
    [] dn = "Z" -> Entry(<< <<"name", <<"nZ">> >> >>)
    [] dn = "M" -> Entry(<< <<"memberOf", <<"ghost">> >> >>)
    [] dn = "E" -> Entry(<< <<"cn", <<"Eve">> >>, <<"mail", <<"e@x", "e@y">> >> >>)
    [] OTHER -> NoEntry

\* The entry a primary search filter selects.
FilterTarget(filter) ==
  CASE filter = "(cn=A)" -> "A"
    [] filter = "(cn=P)" -> "P"
    [] filter = "(cn=U)" -> "U"
    [] filter = "(cn=M)" -> "M"
    [] filter = "(cn=E)" -> "E"
    [] OTHER -> "nobody"

\* ldap_search_ext_s of the primary filter.  The directory answers searches
\* only on a connection whose bind succeeded and only under base "dc".
PrimarySearch(bound, base, filter) ==
  IF bound /\ base = "dc" THEN DirEntry(FilterTarget(filter)) ELSE NoEntry

\* ldap_search_ext_s of (distinguishedName=<group>): rc is LDAP_SUCCESS when
\* the entry is found.
GroupSearch(bound, base, group) ==
  IF bound /\ base = "dc" THEN DirEntry(group) ELSE NoEntry

RECURSIVE ValuesIn(_, _)
\* ldap_get_values: the values of the first attribute of that name, empty
\* when the message holds no such attribute.
ValuesIn(attrs, name) ==
  IF attrs = <<>> THEN <<>>
  ELSE IF Head(attrs)[1] = name THEN Head(attrs)[2]
  ELSE ValuesIn(Tail(attrs), name)

ldap_get_values(msg, name) == IF msg.found THEN ValuesIn(msg.attrs, name) ELSE <<>>

\* ------------------------------------------------------------ request data
\* A field no code has written yet holds whatever the allocator left there:
\* it is kept as the empty set and a load may observe either boolean.
Uninit == {}
Stored(b) == {b}
Load(x) == IF x = Uninit THEN BOOLEAN ELSE x

\* A slot of the model that holds no request record yet.
NoRequest ==
  [kind |-> "none", st |-> "free", inEntry |-> FALSE,
   host |-> "", port |-> 0, username |-> "", password |-> "",
   base |-> "", filter |-> "", callback |-> Undefined,
   connected |-> Uninit, authenticated |-> Uninit, result |-> <<>>,
   bound |-> FALSE, msg |-> NoEntry, groups |-> <<>>, stack |-> <<>>,
   trail |-> <<>>,
   ldap |-> <<>>, freed |-> <<>>, users |-> {}, raced |-> FALSE,
   stale |-> FALSE]

\* Book-keeping on a record, beside the fields the code declares:
\*   ldap   the directory calls made for the request, each with the context
\*          that made it
\*   freed  what has been released of the record, in order
\*   users  the contexts that are in the middle of code that works on it
\*   raced  a context has worked on it while another was in the middle of it
\*   stale  a context has worked on it after it was deleted
\* A context ctx reads or writes record q.
Touch(q, ctx) ==
  [q EXCEPT !.raced = @ \/ (q.users \ {ctx} # {}),
            !.stale = @ \/ (q.freed # <<>>)]

\* ctx starts, or ends, a stretch of code that works on q.
Enter(q, ctx) == [Touch(q, ctx) EXCEPT !.users = @ \cup {ctx}]
Leave(q, ctx) == [Touch(q, ctx) EXCEPT !.users = @ \ {ctx}]

\* One directory call, made from context ctx.
LdapCall(ctx, fn) == [ctx |-> ctx, fn |-> fn]

\* A slip: delete does not release the password.
auth_request_destructor_Leak == <<"host", "username", "callback">>

\* ~auth_request and ~search_request: what delete releases, in order; the
\* derived part runs first.
auth_request_destructor == <<"host", "username", "password", "callback">>
search_request_destructor == <<"base", "filter">> \o auth_request_destructor

\* new auth_request, filled in by Authenticate: the strings are copies of the
\* arguments, connected and authenticated are not initialised.
auth_request(args) ==
  [NoRequest EXCEPT !.kind = "auth", !.st = "queued", !.inEntry = TRUE,
     !.host = Utf8Value(Arg(args, 0)), !.port = Int32Value(Arg(args, 1)),
     !.username = Utf8Value(Arg(args, 2)), !.password = Utf8Value(Arg(args, 3)),
     !.callback = Arg(args, 4)]

\* new search_request, filled in by BuildSearchRequest from whatever the
\* seven argument slots hold.
BuildSearchRequest(args) ==
  [NoRequest EXCEPT !.kind = "search", !.st = "queued", !.inEntry = TRUE,
     !.host = Utf8Value(Arg(args, 0)), !.port = Int32Value(Arg(args, 1)),
     !.username = Utf8Value(Arg(args, 2)), !.password = Utf8Value(Arg(args, 3)),
     !.base = Utf8Value(Arg(args, 4)), !.filter = Utf8Value(Arg(args, 5)),
     !.callback = Arg(args, 6)]

\* ------------------------------------------------------------------- state
VARIABLES
  reqs,      \* request records, by slot
  mainpc,    \* what the main thread is in the middle of
  refs,      \* ev_ref count held by this module (keep-alive)
  died,      \* "no", or what killed the process
  call,      \* the entry call the main thread is inside, and what it threw
  handler    \* per slot, the invocations of the caller's handler so far

vars == <<reqs, mainpc, refs, died, call, handler>>

Idle == [op |-> "idle", r |-> 0]
NoCall == [fn |-> "none", args |-> <<>>, thrown |-> ""]

Init ==
  /\ reqs = [r \in ReqIds |-> NoRequest]
  /\ mainpc = Idle
  /\ refs = 0
  /\ died = "no"
  /\ call = NoCall
  /\ handler = [r \in ReqIds |-> <<>>]

\* Nothing runs in a process that has died.
Alive == died = "no"

\* A slip in the hand-over: the completion is run on the spot, whatever the
\* main thread is in the middle of.
MainLoopTurn_AnyTime == Alive /\ mainpc.op \in {"idle", "Authenticate", "Search"}

\* The main loop takes a new turn (an entry call from the application, or a
\* completion) only when the previous one has run to its end.
MainLoopTurn == Alive /\ mainpc = Idle

\* The slot the next new request record occupies.
FreeSlots == {r \in ReqIds : reqs[r].st = "free"}
NextSlot == CHOOSE r \in FreeSlots : \A q \in FreeSlots : r <= q

\* --------------------------------------------------------- argument inputs
Fn == JsFunction("cb")

AuthArgs ==
  { <<JsString("up"), JsInt32(389), JsString("alice"), JsString("pw1"), Fn>>,
    <<JsString("up"), JsInt32(389), JsString("bob"), JsString("pw1"), Fn>>,
    <<JsString("down"), JsInt32(389), JsString("alice"), JsString("pw1"), Fn>>,
    <<JsString("up"), JsInt32(389), JsString("alice"), JsString("pw1")>>,
    <<JsInt32(389), JsInt32(389), JsString("alice"), JsString("pw1"), Fn>>,
    <<JsString("up"), JsString("389"), JsString("alice"), JsString("pw1"), Fn>>,
    <<JsString("up"), JsInt32(389), Undefined, JsString("pw1"), Fn>>,
    <<JsString("up"), JsInt32(389), JsString("alice"), JsInt32(0), Fn>>,
    <<JsString("up"), JsInt32(389), JsString("alice"), JsString("pw1"),
      JsString("cb")>> }

SearchArgs ==
  { <<JsString("up"), JsInt32(389), JsString("alice"), JsString("pw1"),
      JsString("dc"), JsString(f), Fn>> :
        f \in {"(cn=A)", "(cn=P)", "(cn=none)"} }
  \cup
  { <<JsString("down"), JsInt32(389), JsString("alice"), JsString("pw1"),
      JsString("dc"), JsString("(cn=A)"), Fn>>,
    <<JsString("up"), JsInt32(389), JsString("alice"), JsString("bad"),
      JsString("dc"), JsString("(cn=A)"), Fn>>,
    <<JsString("up"), JsInt32(389), JsString("alice"), JsString("pw1"),
      JsString("dc"), JsString("(cn=none)")>> }

\* A search for each person of the directory, by a user the directory
\* accepts: besides A and P, the entries with a diamond above them, with a
\* parent that has no entry, and with several attributes of their own.
EntrySearchArgs ==
  { <<JsString("up"), JsInt32(389), JsString("alice"), JsString("pw1"),
      JsString("dc"), JsString(f), Fn>> :
        f \in {"(cn=A)", "(cn=P)", "(cn=U)", "(cn=M)", "(cn=E)"} }

\* ev_ref and ev_unref on the count n of references that keep the main loop
\* alive.
\* A slip: the entry call takes no reference.
ev_ref_Nothing(n) == n

ev_ref(n) == n + 1

\* A slip: the completion gives back more than the entry call took.
ev_unref_Twice(n) == n - 2

ev_unref(n) == n - 1

\* -------------------------------------------------------------- entry calls
\* A slip in the validation: the callback argument is not checked.
AuthenticateThrows_NoCallbackCheck(args) ==
  IF Len(args) < 5
    THEN "Required arguments: ldap_host, ldap_port, username, password, callback"
  ELSE IF ~IsString(Arg(args, 0)) THEN "ldap_host should be a string"
  ELSE IF ~IsInt32(Arg(args, 1)) THEN "ldap_port should be a string"
  ELSE IF ~IsString(Arg(args, 2)) THEN "username should be a string"
  ELSE IF ~IsString(Arg(args, 3)) THEN "password should be a string"
  ELSE ""

\* The validation at the head of Authenticate: the message of the TypeError
\* it throws, "" when the arguments pass.
AuthenticateThrows(args) ==
  IF Len(args) < 5
    THEN "Required arguments: ldap_host, ldap_port, username, password, callback"
  ELSE IF ~IsString(Arg(args, 0)) THEN "ldap_host should be a string"
  ELSE IF ~IsInt32(Arg(args, 1)) THEN "ldap_port should be a string"
  ELSE IF ~IsString(Arg(args, 2)) THEN "username should be a string"
  ELSE IF ~IsString(Arg(args, 3)) THEN "password should be a string"
  ELSE IF ~IsFunction(Arg(args, 4)) THEN "callback should be a function"
  ELSE ""

\* Search validates nothing before it builds and schedules the request.
SearchThrows(args) == ""

\* authenticate(...) up to the first return or eio_custom: either the
\* TypeError is raised, or the request is queued for the pool.
Authenticate(args) ==
  /\ MainLoopTurn
  /\ call' = [fn |-> "authenticate", args |-> args,
              thrown |-> AuthenticateThrows(args)]
  /\ IF AuthenticateThrows(args) # ""
       THEN /\ mainpc' = [op |-> "THROW", r |-> 0]
            /\ UNCHANGED <<reqs, refs, died, handler>>
       ELSE /\ FreeSlots # {}
            /\ reqs' = [reqs EXCEPT ![NextSlot] = auth_request(args)]
            /\ mainpc' = [op |-> "Authenticate", r |-> NextSlot]
            /\ UNCHANGED <<refs, died, handler>>

\* The rest of Authenticate: ev_ref, then return Undefined().
AuthenticateReturn(r) ==
  /\ Alive
  /\ mainpc = [op |-> "Authenticate", r |-> r]
  /\ refs' = ev_ref(refs)
  /\ reqs' = [reqs EXCEPT ![r].inEntry = FALSE]
  /\ mainpc' = Idle
  /\ call' = NoCall
  /\ UNCHANGED <<died, handler>>

\* search(...) up to and including eio_custom.
Search(args) ==
  /\ MainLoopTurn
  /\ call' = [fn |-> "search", args |-> args, thrown |-> SearchThrows(args)]
  /\ IF SearchThrows(args) # ""
       THEN /\ mainpc' = [op |-> "THROW", r |-> 0]
            /\ UNCHANGED <<reqs, refs, died, handler>>
       ELSE /\ FreeSlots # {}
            /\ reqs' = [reqs EXCEPT ![NextSlot] = BuildSearchRequest(args)]
            /\ mainpc' = [op |-> "Search", r |-> NextSlot]
            /\ UNCHANGED <<refs, died, handler>>

\* The rest of Search: ev_ref, then return Undefined().
SearchReturn(r) ==
  /\ Alive
  /\ mainpc = [op |-> "Search", r |-> r]
  /\ refs' = ev_ref(refs)
  /\ reqs' = [reqs EXCEPT ![r].inEntry = FALSE]
  /\ mainpc' = Idle
  /\ call' = NoCall
  /\ UNCHANGED <<died, handler>>

\* return THROW(...): the entry call returns to its caller with the TypeError
\* pending and nothing else done.
ThrowReturn ==
  /\ Alive
  /\ mainpc = [op |-> "THROW", r |-> 0]
  /\ mainpc' = Idle
  /\ call' = NoCall
  /\ UNCHANGED <<reqs, refs, died, handler>>

\* ------------------------------------------------------------ worker tasks
\* A slip in the failure branch: authenticated is left as allocated.
AuthenticateOutcome_KeepsAuthenticated(q) ==
  IF ~ldap_open(q.host, q.port)
    THEN [q EXCEPT !.connected = Stored(FALSE)]
    ELSE [q EXCEPT !.connected = Stored(TRUE),
                   !.authenticated =
                      Stored(ldap_simple_bind_s(q.username, q.password))]

\* A slip in the success branch: a rejected bind is stored as not connected.
AuthenticateOutcome_BindDecidesConnected(q) ==
  IF ~ldap_open(q.host, q.port)
    THEN [q EXCEPT !.connected = Stored(FALSE), !.authenticated = Stored(FALSE)]
    ELSE [q EXCEPT !.connected =
                      Stored(ldap_simple_bind_s(q.username, q.password)),
                   !.authenticated =
                      Stored(ldap_simple_bind_s(q.username, q.password))]

\* A slip in the copying of the inputs: every task binds with the credentials
\* of the first request of the run (one shared buffer instead of a strdup per
\* request).
AuthenticateOutcome_SharedCredentials(q) ==
  IF ~ldap_open(q.host, q.port)
    THEN [q EXCEPT !.connected = Stored(FALSE), !.authenticated = Stored(FALSE)]
    ELSE [q EXCEPT !.connected = Stored(TRUE),
                   !.authenticated =
                      Stored(ldap_simple_bind_s(reqs[1].username,
                                                reqs[1].password))]

\* The body of EIO_Authenticate on request record q: open; without a handle
\* both outcome fields are false; else bind, unbind, connected = true and
\* authenticated = (the bind returned LDAP_SUCCESS).
AuthenticateOutcome(q) ==
  IF ~ldap_open(q.host, q.port)
    THEN [q EXCEPT !.connected = Stored(FALSE), !.authenticated = Stored(FALSE)]
    ELSE [q EXCEPT !.connected = Stored(TRUE),
                   !.authenticated =
                      Stored(ldap_simple_bind_s(q.username, q.password))]

\* A slip: a rejected bind returns before the unbind.
AuthenticateCalls_NoUnbindAfterRejectedBind(q) ==
  IF ~ldap_open(q.host, q.port)
    THEN <<LdapCall("worker", "ldap_open")>>
  ELSE IF ~ldap_simple_bind_s(q.username, q.password)
    THEN <<LdapCall("worker", "ldap_open"),
           LdapCall("worker", "ldap_simple_bind_s")>>
  ELSE <<LdapCall("worker", "ldap_open"),
         LdapCall("worker", "ldap_simple_bind_s"),
         LdapCall("worker", "ldap_unbind_s")>>

\* The directory calls of EIO_Authenticate on record q: open and, with a
\* handle, bind and unbind.
AuthenticateCalls(q) ==
  IF ~ldap_open(q.host, q.port)
    THEN <<LdapCall("worker", "ldap_open")>>
    ELSE <<LdapCall("worker", "ldap_open"),
           LdapCall("worker", "ldap_simple_bind_s"),
           LdapCall("worker", "ldap_unbind_s")>>

\* EIO_Authenticate, on a pool thread, from the pool taking the task to its
\* return.
EIO_Authenticate(r) ==
  /\ Alive
  /\ reqs[r].kind = "auth" /\ reqs[r].st = "queued"
  /\ reqs' = [reqs EXCEPT ![r] =
       [AuthenticateOutcome(Touch(reqs[r], "worker")) EXCEPT
          !.st = "finished", !.ldap = AuthenticateCalls(reqs[r])]]
  /\ UNCHANGED <<mainpc, refs, died, call, handler>>

\* One activation record of the ancestor walk: the group being expanded, its
\* memberOf values and the index of the next one to descend into.  The bottom
\* record is the loop over the primary entry's memberOf values in EIO_Search.
Frame(group, ancestors) == [group |-> group, ancestors |-> ancestors, j |-> 0]

RECURSIVE Unwind(_)
\* Return from every activation whose loop has run to its end; the bottom
\* record (the loop in EIO_Search) stays.
Unwind(stack) ==
  IF Len(stack) > 1 /\ stack[Len(stack)].j = Len(stack[Len(stack)].ancestors)
    THEN Unwind(SubSeq(stack, 1, Len(stack) - 1))
    ELSE stack

\* EIO_Search up to the loop over the members: open; without a handle the
\* task is over with connected = false, else bind (the result code is dropped),
\* the primary search and the memberOf values of its result.
EIO_Search(r) ==
  /\ Alive
  /\ reqs[r].kind = "search" /\ reqs[r].st = "queued"
  /\ LET q == reqs[r]
         ldap == ldap_open(q.host, q.port)
         bound == ldap_simple_bind_s(q.username, q.password)
         resultMessage == PrimarySearch(bound, q.base, q.filter)
         members == ldap_get_values(resultMessage, "memberOf")
     IN reqs' = [reqs EXCEPT ![r] =
          IF ~ldap
            THEN [Touch(q, "worker") EXCEPT
                    !.st = "finished", !.connected = Stored(FALSE),
                    !.ldap = <<LdapCall("worker", "ldap_open")>>]
            ELSE [Enter(q, "worker") EXCEPT
                    !.st = "running", !.bound = bound,
                    !.msg = resultMessage, !.groups = <<>>,
                    !.stack = <<Frame("", members)>>,
                    !.ldap = <<LdapCall("worker", "ldap_open"),
                               LdapCall("worker", "ldap_simple_bind_s"),
                               LdapCall("worker", "ldap_search_ext_s")>>]]
  /\ UNCHANGED <<mainpc, refs, died, call, handler>>

\* A slip in the naming: the name attribute is ignored.
group_short_name_Raw(msg, group) == group

\* The name SearchAncestors records for a group whose query succeeded: the
\* first value of its name attribute, else the identifier it was asked for.
group_short_name(msg, group) ==
  IF Len(ldap_get_values(msg, "name")) > 0
    THEN ldap_get_values(msg, "name")[1]
    ELSE group

\* A slip: a name that is already in the list is not added again.
PushShortName_Unique(groups, name) ==
  IF \E i \in 1..Len(groups) : groups[i] = name THEN groups
  ELSE Append(groups, name)

\* groups->push_back(strdup(group_short_name)) after a query that succeeded.
PushShortName(groups, name) == Append(groups, name)

\* A slip: a group whose query failed is left out.
PushRawGroup_Dropped(groups, group) == groups

\* groups->push_back(strdup(group)) after a query that failed.
PushRawGroup(groups, group) == Append(groups, group)

\* One call of SearchAncestors from the loop on top of the stack: the query
\* for the group, the push of its name (or of the raw identifier when the
\* query fails) and, on success, a new activation for its memberOf values.
\* A call the stack has no room for kills the process.
SearchAncestors(r) ==
  /\ Alive
  /\ reqs[r].kind = "search" /\ reqs[r].st = "running"
  /\ LET q == [Touch(reqs[r], "worker") EXCEPT
                   !.ldap = Append(@, LdapCall("worker", "ldap_search_ext_s"))]
         depth == Len(q.stack)
         top == q.stack[depth]
     IN /\ top.j < Len(top.ancestors)
        /\ LET group == top.ancestors[top.j + 1]
               caller == [q.stack EXCEPT ![depth].j = top.j + 1]
               msg == GroupSearch(q.bound, q.base, group)
               trail == IF depth = 1 THEN <<group>> ELSE Append(q.trail, group)
           IN IF depth > StackLimit
                THEN /\ died' = "stack overflow"
                     /\ reqs' = [reqs EXCEPT ![r].trail = trail]
                ELSE /\ died' = died
                     /\ reqs' = [reqs EXCEPT ![r] =
                          IF msg.found
                            THEN [q EXCEPT
                                   !.trail = trail,
                                   !.groups = PushShortName(q.groups,
                                                group_short_name(msg, group)),
                                   !.stack = Unwind(Append(caller,
                                     Frame(group, ldap_get_values(msg, "memberOf"))))]
                            ELSE [q EXCEPT
                                   !.trail = trail,
                                   !.groups = PushRawGroup(q.groups, group),
                                   !.stack = Unwind(caller)]]
  /\ UNCHANGED <<mainpc, refs, call, handler>>

\* The orders a std::map keyed by char* can hold n entries in: the keys are
\* compared as addresses, so any arrangement of the inserted pairs can occur.
Arrangements(n) ==
  {f \in [1..n -> 1..n] : \A i, k \in 1..n : f[i] = f[k] => i = k}

\* ResultObject: one (attribute, values) pair per attribute of the message,
\* inserted in the order the server returned them.
ResultObject(msg) == IF msg.found THEN msg.attrs ELSE <<>>

\* The end of EIO_Search, after the loop over the members: the attributes of
\* the primary result plus the allGroups pair go into the result map,
\* connected = true, unbind.
EIO_SearchEnd(r) ==
  /\ Alive
  /\ reqs[r].kind = "search" /\ reqs[r].st = "running"
  /\ LET q == reqs[r]
         top == q.stack[1]
         inserted == Append(ResultObject(q.msg), <<"allGroups", q.groups>>)
     IN /\ Len(q.stack) = 1 /\ top.j = Len(top.ancestors)
        /\ \E f \in Arrangements(Len(inserted)) :
             reqs' = [reqs EXCEPT ![r] =
               [Leave(q, "worker") EXCEPT
                  !.st = "finished", !.stack = <<>>,
                  !.result = [i \in 1..Len(inserted) |-> inserted[f[i]]],
                  !.connected = Stored(TRUE),
                  !.ldap = Append(@, LdapCall("worker", "ldap_unbind_s"))]]
  /\ UNCHANGED <<mainpc, refs, died, call, handler>>

\* ------------------------------------------------------------- completions
\* Object::Set: a property already present keeps its place and takes the new
\* value, a new one goes to the end.
JsSet(props, key, val) ==
  IF \E i \in 1..Len(props) : props[i][1] = key
    THEN [i \in 1..Len(props) |->
            IF props[i][1] = key THEN <<key, val>> ELSE props[i]]
    ELSE Append(props, <<key, val>>)

\* A slip in JsResultObject: the single-value case is not told apart.
JsValues_AlwaysArray(values) ==
  JsArray([i \in 1..Len(values) |-> JsString(values[i])])

\* The value JsResultObject stores for one key: the bare string when there is
\* exactly one value, an array of all the values otherwise.
JsValues(values) ==
  IF Len(values) = 1
    THEN JsString(values[1])
    ELSE JsArray([i \in 1..Len(values) |-> JsString(values[i])])

RECURSIVE JsResultProps(_, _)
JsResultProps(c_results, props) ==
  IF c_results = <<>> THEN props
  ELSE JsResultProps(Tail(c_results),
         JsSet(props, Head(c_results)[1], JsValues(Head(c_results)[2])))

\* JsResultObject: the JavaScript object built by walking the result map in
\* its own order.
JsResultObject(c_results) == JsObject(JsResultProps(c_results, <<>>))

\* JsResultObject ends with ber_free(berptr, 0) on a berptr it never assigned:
\* the call can pass (a null or harmless value) or take the process down.
BerFreeOutcomes == {"ok", "crash"}

\* Function::Call through a handle that was cast from a value that is no
\* function: the process dies, or nothing is invoked.
BadCallOutcomes == {"nothing", "crash"}

Invocation(r, ctx, error, result) ==
  [ctx |-> ctx, inEntry |-> reqs[r].inEntry, error |-> error, result |-> result]

\* A slip in the hand-over: the completion is queued as soon as a pool
\* thread has taken the task.
TaskDone_OnceStarted(r) == reqs[r].st \in {"running", "finished"}

\* The pool hands a request to the main loop's completion queue when its
\* task function has returned.
TaskDone(r) == reqs[r].st = "finished"

\* EIO_AfterAuthenticate, first statement: the main loop has taken the
\* finished request off the queue and ev_unref runs.
EIO_AfterAuthenticate(r) ==
  /\ MainLoopTurn
  /\ reqs[r].kind = "auth" /\ TaskDone(r)
  /\ refs' = ev_unref(refs)
  /\ reqs' = [reqs EXCEPT ![r] = [Enter(@, "main") EXCEPT !.st = "after"]]
  /\ mainpc' = [op |-> "EIO_AfterAuthenticate", r |-> r]
  /\ UNCHANGED <<died, call, handler>>

\* EIO_AfterAuthenticate: the two callback arguments and the call.
AfterAuthenticateCall(r) ==
  /\ Alive
  /\ mainpc = [op |-> "EIO_AfterAuthenticate", r |-> r]
  /\ \E connected \in Load(reqs[r].connected),
        authenticated \in Load(reqs[r].authenticated) :
       LET arg0 == IF connected THEN Undefined
                   ELSE JsError("LDAP connection failed")
           arg1 == JsBoolean(authenticated)
       IN IF IsFunction(reqs[r].callback)
            THEN /\ handler' = [handler EXCEPT ![r] =
                       Append(@, Invocation(r, "main", arg0, arg1))]
                 /\ died' = died
            ELSE \E o \in BadCallOutcomes :
                   /\ died' = (IF o = "crash" THEN "bad call" ELSE died)
                   /\ handler' = handler
  /\ reqs' = [reqs EXCEPT ![r] = Touch(@, "main")]
  /\ mainpc' = [op |-> "delete auth_req", r |-> r]
  /\ UNCHANGED <<refs, call>>

\* EIO_AfterAuthenticate: delete auth_req, return.
AfterAuthenticateDelete(r) ==
  /\ Alive
  /\ mainpc = [op |-> "delete auth_req", r |-> r]
  /\ reqs' = [reqs EXCEPT ![r] =
       [Leave(@, "main") EXCEPT
          !.st = "deleted", !.freed = @ \o auth_request_destructor]]
  /\ mainpc' = Idle
  /\ UNCHANGED <<refs, died, call, handler>>

\* EIO_AfterSearch, first statement: ev_unref.
EIO_AfterSearch(r) ==
  /\ MainLoopTurn
  /\ reqs[r].kind = "search" /\ TaskDone(r)
  /\ refs' = ev_unref(refs)
  /\ reqs' = [reqs EXCEPT ![r] = [Enter(@, "main") EXCEPT !.st = "after"]]
  /\ mainpc' = [op |-> "EIO_AfterSearch", r |-> r]
  /\ UNCHANGED <<died, call, handler>>

\* EIO_AfterSearch: the result object (built only when connected), the two
\* callback arguments and the call.
AfterSearchCall(r) ==
  /\ Alive
  /\ mainpc = [op |-> "EIO_AfterSearch", r |-> r]
  /\ \E connected \in Load(reqs[r].connected),
        ber \in (IF reqs[r].connected = Stored(FALSE) THEN {"ok"}
                 ELSE BerFreeOutcomes) :
       LET jsResults == IF connected THEN JsResultObject(reqs[r].result)
                        ELSE Undefined
           arg0 == IF connected THEN Undefined
                   ELSE JsError("LDAP connection failed")
       IN IF connected /\ ber = "crash"
            THEN died' = "invalid free" /\ handler' = handler
          ELSE IF IsFunction(reqs[r].callback)
            THEN /\ handler' = [handler EXCEPT ![r] =
                       Append(@, Invocation(r, "main", arg0, jsResults))]
                 /\ died' = died
            ELSE \E o \in BadCallOutcomes :
                   /\ died' = (IF o = "crash" THEN "bad call" ELSE died)
                   /\ handler' = handler
  /\ reqs' = [reqs EXCEPT ![r] = Touch(@, "main")]
  /\ mainpc' = [op |-> "delete search_req", r |-> r]
  /\ UNCHANGED <<refs, call>>

\* EIO_AfterSearch: delete search_req, return.
AfterSearchDelete(r) ==
  /\ Alive
  /\ mainpc = [op |-> "delete search_req", r |-> r]
  /\ reqs' = [reqs EXCEPT ![r] =
       [Leave(@, "main") EXCEPT
          !.st = "deleted", !.freed = @ \o search_request_destructor]]
  /\ mainpc' = Idle
  /\ UNCHANGED <<refs, died, call, handler>>

\* ----------------------------------------------------------- specification
\* What a pool thread does for request r.
Worker(r) ==
  \/ EIO_Authenticate(r)
  \/ EIO_Search(r)
  \/ SearchAncestors(r)
  \/ EIO_SearchEnd(r)

\* What the main thread does for request r once the entry call has queued it.
AuthMainThread(r) ==
  \/ AuthenticateReturn(r)
  \/ EIO_AfterAuthenticate(r)
  \/ AfterAuthenticateCall(r)
  \/ AfterAuthenticateDelete(r)

SearchMainThread(r) ==
  \/ SearchReturn(r)
  \/ EIO_AfterSearch(r)
  \/ AfterSearchCall(r)
  \/ AfterSearchDelete(r)

MainThread(r) == AuthMainThread(r) \/ SearchMainThread(r)

Next ==
  \/ \E args \in AuthArgs : Authenticate(args)
  \/ \E args \in SearchArgs : Search(args)
  \/ ThrowReturn
  \/ \E r \in ReqIds : Worker(r)
  \/ \E r \in ReqIds : MainThread(r)

Spec == Init /\ [][Next]_vars

\* The program when the application only ever calls authenticate.
NextAuth ==
  \/ \E args \in AuthArgs : Authenticate(args)
  \/ ThrowReturn
  \/ \E r \in ReqIds : EIO_Authenticate(r)
  \/ \E r \in ReqIds : AuthMainThread(r)

\* The program when the application only ever calls search, for any of the
\* persons of the directory.
NextSearch ==
  \/ \E args \in EntrySearchArgs : Search(args)
  \/ \E r \in ReqIds : EIO_Search(r) \/ SearchAncestors(r) \/ EIO_SearchEnd(r)
  \/ \E r \in ReqIds : SearchMainThread(r)

SearchSpec == Init /\ [][NextSearch]_vars

\* An entry call that threw returns.  The pool runs every queued task.  The
\* main loop gives every pending turn its turn, however often the
\* application's own calls occupy the main thread in between.
FairAuthSpec ==
  /\ Init /\ [][NextAuth]_vars
  /\ WF_vars(ThrowReturn)
  /\ \A r \in ReqIds : WF_vars(EIO_Authenticate(r)) /\ SF_vars(AuthMainThread(r))

\* ------------------------------------------------------------------ claims
\* Requests that exist and whose callback argument really is a function.
Accepted(r) == reqs[r].st # "free" /\ reqs[r].callback.t = "function"
AcceptedKind(r, kind) == Accepted(r) /\ reqs[r].kind = kind

\* Shapes of the values a handler receives.
ErrorAbsent(inv) == inv.error.t = "undefined"
ConnectionFailed(inv) ==
  inv.error.t = "error" /\ inv.error.v = "LDAP connection failed"
ResultIsBoolean(inv, b) == inv.result.t = "boolean" /\ inv.result.v = b
ResultAbsent(inv) == inv.result.t = "undefined"

Invocations(r) == {handler[r][i] : i \in 1..Len(handler[r])}

\* What the directory does with the inputs of request r.
Unreachable(r) == ~(reqs[r].host = "up" /\ reqs[r].port = 389)
GoodCredentials(r) ==
  \/ reqs[r].username = "alice" /\ reqs[r].password = "pw1"
  \/ reqs[r].username = "bob" /\ reqs[r].password = "pw2"

\* C1: every accepted authenticate or search request has its handler invoked
\* exactly once: never twice, once by the time its record is deleted, and no
\* run ends (the process dies) with the handler of an accepted request still
\* uninvoked.
C1_HandlerExactlyOnce ==
  \A r \in ReqIds :
    Accepted(r) =>
      /\ Len(handler[r]) <= 1
      /\ reqs[r].st = "deleted" => Len(handler[r]) = 1
      /\ ~Alive => Len(handler[r]) = 1

\* C2: a handler is invoked only by the main thread, and only after the entry
\* call that created its request has returned.
C2_InvokedFromMainLoopAfterReturn ==
  \A r \in ReqIds :
    \A inv \in Invocations(r) : inv.ctx = "main" /\ ~inv.inEntry

\* C2 witness: a request whose worker ran has had its handler invoked.
C2_Witness ==
  \E r \in ReqIds :
    /\ Accepted(r) /\ reqs[r].connected # Uninit
    /\ Len(handler[r]) = 1 /\ handler[r][1].ctx = "main"

\* C3: when open returns no handle, the handler gets the "LDAP connection
\* failed" error and the not-established result: false for authenticate,
\* undefined for search; and such a request is not deleted uninvoked.
C3_UnreachableGivesError ==
  \A r \in ReqIds :
    (Accepted(r) /\ Unreachable(r)) =>
      /\ reqs[r].st = "deleted" => Len(handler[r]) = 1
      /\ \A inv \in Invocations(r) :
           /\ ConnectionFailed(inv)
           /\ reqs[r].kind = "auth" => ResultIsBoolean(inv, FALSE)
           /\ reqs[r].kind = "search" => ResultAbsent(inv)

\* C3 witness: an authenticate and a search request against the unreachable
\* host have both been answered.
C3_Witness ==
  \E r, q \in ReqIds :
    /\ AcceptedKind(r, "auth") /\ Unreachable(r) /\ Len(handler[r]) = 1
    /\ AcceptedKind(q, "search") /\ Unreachable(q) /\ Len(handler[q]) = 1

\* C4: authenticate against a reachable directory delivers true without an
\* error when the bind succeeds and false without an error when it is
\* rejected.
C4_BindOutcomeWithoutError ==
  \A r \in ReqIds :
    (AcceptedKind(r, "auth") /\ ~Unreachable(r)) =>
      \A inv \in Invocations(r) :
        /\ ErrorAbsent(inv)
        /\ ResultIsBoolean(inv, GoodCredentials(r))

\* C4 witness: one accepted bind and one rejected bind have been answered.
C4_Witness ==
  \E r, q \in ReqIds :
    /\ AcceptedKind(r, "auth") /\ ~Unreachable(r) /\ GoodCredentials(r)
    /\ Len(handler[r]) = 1
    /\ AcceptedKind(q, "auth") /\ ~Unreachable(q) /\ ~GoodCredentials(q)
    /\ Len(handler[q]) = 1

\* C5: when only authenticate calls are issued, every request's handler is
\* eventually invoked, and what it receives is the outcome the directory
\* gives for that request's own host, port, username and password.
C5_EachGetsItsOwnOutcome ==
  /\ [](\A r \in ReqIds :
          AcceptedKind(r, "auth") =>
            \A inv \in Invocations(r) :
              /\ ErrorAbsent(inv) <=> ~Unreachable(r)
              /\ ResultIsBoolean(inv, ~Unreachable(r) /\ GoodCredentials(r)))
  /\ \A r \in ReqIds :
       (reqs[r].kind = "auth") ~> (Len(handler[r]) = 1)

\* C5 witness: two requests with different credentials were outstanding
\* together; the later one has been answered first, with its own outcome,
\* while the earlier one still waits in the completion queue.
C5_Witness ==
  /\ AcceptedKind(1, "auth") /\ AcceptedKind(2, "auth")
  /\ reqs[1].username # reqs[2].username
  /\ GoodCredentials(1) /\ ~GoodCredentials(2)
  /\ reqs[1].st = "finished" /\ Len(handler[1]) = 0
  /\ Len(handler[2]) = 1 /\ ResultIsBoolean(handler[2][1], FALSE)

\* The argument lists authenticate has to refuse.
AuthenticateMalformed(args) ==
  \/ Len(args) < 5
  \/ /\ Len(args) >= 5
     /\ \/ args[1].t # "string"
        \/ args[2].t # "int32"
        \/ args[3].t # "string"
        \/ args[4].t # "string"
        \/ args[5].t # "function"

\* The argument lists search has to refuse.
SearchMalformed(args) ==
  \/ Len(args) < 7
  \/ /\ Len(args) >= 7
     /\ \/ args[1].t # "string"
        \/ args[2].t # "int32"
        \/ \E i \in 3..6 : args[i].t # "string"
        \/ args[7].t # "function"

\* A step that starts the entry call fn with a malformed argument list throws
\* and leaves records, keep-alive count and handlers as they were, and so
\* does the step that returns from a call that threw.
RejectedSynchronously(fn, malformed) ==
  /\ (call' # call /\ call'.fn = fn /\ malformed) =>
       /\ call'.thrown # ""
       /\ reqs' = reqs /\ refs' = refs /\ handler' = handler
  /\ (call' # call /\ call.fn = fn /\ call.thrown # "") =>
       /\ mainpc' = Idle
       /\ reqs' = reqs /\ refs' = refs /\ handler' = handler

\* C6: an authenticate call with too few or wrongly typed arguments is
\* rejected by the entry call itself: an error is thrown, no request record
\* is created or queued, the keep-alive count is unchanged and no handler is
\* invoked.
C6_AuthenticateRejectsSynchronously ==
  [][RejectedSynchronously("authenticate", AuthenticateMalformed(call'.args))]_vars

\* C6 witness: a malformed authenticate call has just thrown, while an
\* earlier request is still in flight.
C6_Witness ==
  /\ call.fn = "authenticate" /\ AuthenticateMalformed(call.args)
  /\ call.thrown # "" /\ mainpc.op = "THROW"
  /\ \E r \in ReqIds : reqs[r].st = "queued"

\* C7: a search call with too few or wrongly typed arguments is rejected by
\* the entry call itself: an error is thrown, no request record is created or
\* queued and the keep-alive count is unchanged.
C7_SearchRejectsSynchronously ==
  [][RejectedSynchronously("search", SearchMalformed(call'.args))]_vars

\* C8: a search against a reachable directory whose primary search fails or
\* matches nothing delivers no error and a result that is absent or has no
\* keys.
C8_NoMatchGivesNoKeys ==
  \A r \in ReqIds :
    (AcceptedKind(r, "search") /\ ~Unreachable(r)) =>
      \A inv \in Invocations(r) :
        ~reqs[r].msg.found =>
          /\ ErrorAbsent(inv)
          /\ \/ ResultAbsent(inv)
             \/ inv.result.t = "object" /\ inv.result.v = <<>>

NoRepeat(seq) == \A i, k \in 1..Len(seq) : seq[i] = seq[k] => i = k

\* C9: the ancestor walk ends on every memberOf graph: under one resolution
\* root no group identifier is queried twice, and the walk never runs the
\* worker out of stack.
C9_AncestorWalkTerminates ==
  /\ died # "stack overflow"
  /\ \A r \in ReqIds : NoRepeat(reqs[r].trail)

\* The display name of a group of the directory: the first value of its name
\* attribute, the identifier itself when it has none.
nameOf(g) ==
  IF \E i \in 1..Len(DirEntry(g).attrs) : DirEntry(g).attrs[i][1] = "name"
    THEN LET i == CHOOSE i \in 1..Len(DirEntry(g).attrs) :
                    DirEntry(g).attrs[i][1] = "name"
         IN DirEntry(g).attrs[i][2][1]
    ELSE g

\* The search for the entry A of the chain A -> B -> C, by a bound user.
ChainSearch(r) ==
  /\ AcceptedKind(r, "search") /\ ~Unreachable(r) /\ GoodCredentials(r)
  /\ reqs[r].base = "dc" /\ reqs[r].filter = "(cn=A)"

HasProp(inv, key, val) ==
  /\ inv.result.t = "object"
  /\ \E i \in 1..Len(inv.result.v) :
       inv.result.v[i][1] = key /\ inv.result.v[i][2] = val

\* C10: on the chain A -> B -> C a search for A delivers
\* allGroups = [nameOf(B), nameOf(C)], in that order.
C10_ChainAllGroups ==
  \A r \in ReqIds :
    ChainSearch(r) =>
      /\ reqs[r].st \in {"finished", "after"} =>
           reqs[r].groups = <<nameOf("B"), nameOf("C")>>
      /\ \A inv \in Invocations(r) :
           HasProp(inv, "allGroups",
                   JsArray(<<JsString(nameOf("B")), JsString(nameOf("C"))>>))

\* C10 witness: the handler of a search for A has received the list, B under
\* its name attribute and C, which has none, under its identifier.
C10_Witness ==
  \E r \in ReqIds :
    /\ ChainSearch(r) /\ Len(handler[r]) = 1
    /\ HasProp(handler[r][1], "allGroups",
               JsArray(<<JsString("nB"), JsString("C")>>))

\* What the worker of search request r had in hand when it built the result:
\* the attributes of the primary entry as the directory returned them, then
\* allGroups with the resolved ancestor names.
Underlying(r) ==
  (IF reqs[r].msg.found THEN reqs[r].msg.attrs ELSE <<>>)
    \o << <<"allGroups", reqs[r].groups>> >>

ListOf(values) == JsArray([k \in 1..Len(values) |-> JsString(values[k])])

\* C11: in the object a search handler receives, a key with exactly one
\* underlying value holds that value as a bare string, and a key with two or
\* more holds the list of them in their original order; this goes for the
\* directory's attributes and for allGroups alike.
C11_OneValueBareManyValuesList ==
  \A r \in ReqIds :
    AcceptedKind(r, "search") =>
      \A inv \in Invocations(r) :
        inv.result.t = "object" =>
          \A i \in 1..Len(Underlying(r)) :
            LET key == Underlying(r)[i][1]
                values == Underlying(r)[i][2]
            IN /\ Len(values) = 1 => HasProp(inv, key, JsString(values[1]))
               /\ Len(values) >= 2 => HasProp(inv, key, ListOf(values))

\* C11 witness: handlers have received a single-valued attribute (cn) as a
\* bare string beside a two-valued one (mail) as a list, and allGroups once
\* as a bare string (one ancestor) and once as a list (four).
C11_Witness ==
  \E r, q \in ReqIds :
    /\ Len(handler[r]) = 1 /\ Len(handler[q]) = 1
    /\ \/ /\ HasProp(handler[r][1], "cn", JsString("Eve"))
          /\ HasProp(handler[r][1], "mail", ListOf(<<"e@x", "e@y">>))
          /\ HasProp(handler[q][1], "allGroups", JsString("ghost"))
       \/ /\ HasProp(handler[r][1], "allGroups", JsString("ghost"))
          /\ HasProp(handler[q][1], "allGroups",
                     ListOf(<<"nV", "nZ", "nW", "nZ">>))
          /\ HasProp(handler[q][1], "memberOf", ListOf(<<"V", "W">>))

\* C12: in every results map a search produces, and in the object its handler
\* receives, every key (allGroups included) has at least one value.
C12_NoKeyWithoutValues ==
  \A r \in ReqIds :
    AcceptedKind(r, "search") =>
      /\ \A i \in 1..Len(reqs[r].result) : Len(reqs[r].result[i][2]) >= 1
      /\ \A inv \in Invocations(r) :
           inv.result.t = "object" =>
             \A i \in 1..Len(inv.result.v) : inv.result.v[i][2] # JsArray(<<>>)

RECURSIVE KeysOf(_)
KeysOf(props) ==
  IF props = <<>> THEN <<>> ELSE <<Head(props)[1]>> \o KeysOf(Tail(props))

\* seq with everything dropped that is not in the set keep.
RECURSIVE Only(_, _)
Only(seq, keep) ==
  IF seq = <<>> THEN <<>>
  ELSE IF Head(seq) \in keep THEN <<Head(seq)>> \o Only(Tail(seq), keep)
  ELSE Only(Tail(seq), keep)

\* C13: the object a search handler receives lists the directory's attributes
\* in the order the directory returned them (cn before mail for an entry
\* returned as cn, mail), and each attribute's values in the directory's
\* order.
C13_KeysAndValuesInServerOrder ==
  \A r \in ReqIds :
    (AcceptedKind(r, "search") /\ reqs[r].msg.found) =>
      \A inv \in Invocations(r) :
        inv.result.t = "object" =>
          LET attrs == reqs[r].msg.attrs
              names == {attrs[i][1] : i \in 1..Len(attrs)}
          IN /\ Only(KeysOf(inv.result.v), names) = KeysOf(attrs)
             /\ \A i \in 1..Len(attrs) :
                  \/ HasProp(inv, attrs[i][1], JsString(attrs[i][2][1]))
                       /\ Len(attrs[i][2]) = 1
                  \/ HasProp(inv, attrs[i][1], ListOf(attrs[i][2]))

\* The accepted requests that exist and whose handler has not been invoked.
Unanswered == {r \in ReqIds : Accepted(r) /\ reqs[r].st # "deleted"
                                /\ Len(handler[r]) = 0}

Pending == {r \in ReqIds : reqs[r].st \in {"queued", "running", "finished"}
                             /\ ~reqs[r].inEntry}

Acquired(r) ==
  {"host", "username", "password", "callback"}
    \cup (IF reqs[r].kind = "search" THEN {"base", "filter"} ELSE {})

Count(seq, x) == Cardinality({i \in 1..Len(seq) : seq[i] = x})

\* C15: whatever the directory answered, the strings and the handler
\* reference a request acquired are released exactly once, by the deletion
\* of its record and not before; the record is deleted only after the handler
\* has been invoked and with no context still working on it; no context
\* works on a deleted record; and once every record is deleted every
\* keep-alive reference has been given back.
C15_ReleasedOnceAfterTheCall ==
  /\ \A r \in ReqIds :
       Accepted(r) =>
         /\ \A x \in Acquired(r) :
              Count(reqs[r].freed, x) = (IF reqs[r].st = "deleted" THEN 1 ELSE 0)
         /\ \A i \in 1..Len(reqs[r].freed) : reqs[r].freed[i] \in Acquired(r)
         /\ reqs[r].st = "deleted" =>
              Len(handler[r]) = 1 /\ reqs[r].users = {}
         /\ ~reqs[r].stale
  /\ (\A r \in ReqIds : reqs[r].st \in {"free", "deleted"}) => refs = 0

\* C15 witness: a search that succeeded and an authenticate request that
\* found the directory unreachable have both been answered and deleted.
C15_Witness ==
  \E r, q \in ReqIds :
    /\ AcceptedKind(r, "search") /\ reqs[r].connected = Stored(TRUE)
    /\ reqs[r].st = "deleted" /\ Len(reqs[r].freed) = 6
    /\ AcceptedKind(q, "auth") /\ Unreachable(q)
    /\ reqs[q].st = "deleted" /\ Len(reqs[q].freed) = 4

\* C16: a request record is worked on by one context at a time.  The main
\* thread is out of it while the entry call finishes after the submission,
\* a pool thread is in it only while the task runs, the main thread is in it
\* again only once the task has returned, and never has one context worked on
\* it while another was in the middle of it.
C16_OneContextAtATime ==
  \A r \in ReqIds :
    /\ Cardinality(reqs[r].users) <= 1
    /\ ~reqs[r].raced
    /\ (mainpc.r = r /\ mainpc.op \in {"Authenticate", "Search"}) =>
         "main" \notin reqs[r].users
    /\ "worker" \in reqs[r].users => reqs[r].st = "running"
    /\ "main" \in reqs[r].users =>
         reqs[r].st = "after" /\ reqs[r].connected # Uninit

\* C16 witness: a pool thread is in the middle of one search while the main
\* thread is in the completion of another request.
C16_Witness ==
  \E r, q \in ReqIds :
    /\ reqs[r].users = {"worker"} /\ Len(reqs[r].ldap) >= 4
    /\ reqs[q].users = {"main"} /\ mainpc.r = q

\* The names of the directory calls made for request r, in order.
LdapFns(r) == [i \in 1..Len(reqs[r].ldap) |-> reqs[r].ldap[i].fn]

TaskReturned(r) == reqs[r].st \in {"finished", "after", "deleted"}

\* C17: the directory calls of one task come in the order open, bind, then
\* (for a search) the primary search and the ancestor queries, then unbind;
\* when open gave a handle the task has called unbind exactly once, as its
\* last call, by the time it returns, whatever bind and search answered;
\* without a handle open is the only call; and every call is made by the
\* pool thread, none by the main thread.
C17_OpenBindSearchUnbind ==
  \A r \in ReqIds :
    LET log == reqs[r].ldap
        n == Len(log)
    IN /\ \A i \in 1..n : log[i].ctx = "worker"
       /\ reqs[r].st \in {"free", "queued"} => n = 0
       /\ n >= 1 => log[1].fn = "ldap_open"
       /\ n >= 2 => log[2].fn = "ldap_simple_bind_s" /\ ~Unreachable(r)
       /\ \A i \in 3..n :
            /\ log[i].fn \in {"ldap_search_ext_s", "ldap_unbind_s"}
            /\ reqs[r].kind = "auth" => log[i].fn = "ldap_unbind_s"
            /\ (reqs[r].kind = "search" /\ i = 3) =>
                 log[i].fn = "ldap_search_ext_s"
       /\ \A i \in 1..n :
            log[i].fn = "ldap_unbind_s" => i = n /\ TaskReturned(r)
       /\ TaskReturned(r) =>
            IF Unreachable(r) THEN n = 1
            ELSE n >= 3 /\ log[n].fn = "ldap_unbind_s"

\* C17 witness: a search with ancestor queries and an authenticate request
\* whose bind was rejected have both returned, each with its unbind.
C17_Witness ==
  \E r, q \in ReqIds :
    /\ reqs[r].kind = "search" /\ TaskReturned(r)
    /\ Len(reqs[r].ldap) >= 5 /\ LdapFns(r)[Len(reqs[r].ldap)] = "ldap_unbind_s"
    /\ reqs[q].kind = "auth" /\ TaskReturned(q)
    /\ ~Unreachable(q) /\ ~GoodCredentials(q)
    /\ LdapFns(q) = <<"ldap_open", "ldap_simple_bind_s", "ldap_unbind_s">>

\* The search for the entry M, by a bound user: M's only memberOf value,
\* "ghost", has no entry, so the query for it fails.
GhostSearch(r) ==
  /\ AcceptedKind(r, "search") /\ ~Unreachable(r) /\ GoodCredentials(r)
  /\ reqs[r].base = "dc" /\ reqs[r].filter = "(cn=M)"

\* The ancestor queries made so far for search request r.
AncestorQueries(r) ==
  Cardinality({i \in 4..Len(reqs[r].ldap) :
                 reqs[r].ldap[i].fn = "ldap_search_ext_s"})

\* C18: every ancestor query adds exactly one element to the list, and when
\* the query for an identifier fails that element is the raw identifier, no
\* query is made below it, and the search is answered without an error: the
\* search for M makes the one query for "ghost" and delivers
\* allGroups = "ghost".
C18_FailedQueryIsALeaf ==
  \A r \in ReqIds :
    reqs[r].kind = "search" =>
      /\ Len(reqs[r].groups) = AncestorQueries(r)
      /\ GhostSearch(r) =>
           /\ TaskReturned(r) =>
                /\ reqs[r].groups = <<"ghost">>
                /\ LdapFns(r) = <<"ldap_open", "ldap_simple_bind_s",
                                  "ldap_search_ext_s", "ldap_search_ext_s",
                                  "ldap_unbind_s">>
           /\ \A inv \in Invocations(r) :
                /\ ErrorAbsent(inv)
                /\ HasProp(inv, "allGroups", JsString("ghost"))

\* C18 witness: the handler of the search for M has been invoked, without an
\* error, after the query for "ghost" failed.
C18_Witness ==
  \E r \in ReqIds :
    /\ GhostSearch(r) /\ ~GroupSearch(reqs[r].bound, reqs[r].base, "ghost").found
    /\ Len(handler[r]) = 1 /\ ErrorAbsent(handler[r][1])
    /\ reqs[r].groups = <<"ghost">>

\* The search for the entry U of the diamond U -> V -> Z, U -> W -> Z, by a
\* bound user.
DiamondSearch(r) ==
  /\ AcceptedKind(r, "search") /\ ~Unreachable(r) /\ GoodCredentials(r)
  /\ reqs[r].base = "dc" /\ reqs[r].filter = "(cn=U)"

\* C19: several memberOf values are resolved one after the other, each to
\* its full depth before the next, and the lists are joined with nothing
\* left out: the search for U delivers V, Z, W, Z under their names, the
\* shared ancestor Z once for each of the two paths that reach it.
C19_DiamondAncestorOncePerPath ==
  \A r \in ReqIds :
    DiamondSearch(r) =>
      LET expected == <<nameOf("V"), nameOf("Z"), nameOf("W"), nameOf("Z")>>
      IN /\ \E k \in 0..4 : reqs[r].groups = SubSeq(expected, 1, k)
         /\ TaskReturned(r) => reqs[r].groups = expected
         /\ \A inv \in Invocations(r) :
              HasProp(inv, "allGroups", ListOf(expected))

\* C19 witness: the handler of the search for U has received the list with
\* Z's name in it twice.
C19_Witness ==
  \E r \in ReqIds :
    /\ DiamondSearch(r) /\ Len(handler[r]) = 1
    /\ HasProp(handler[r][1], "allGroups", ListOf(<<"nV", "nZ", "nW", "nZ">>))

\* The requests that were accepted and whose completion turn has not begun.
Undispatched == {r \in ReqIds : reqs[r].st \in {"queued", "running", "finished"}}

\* C20: the keep-alive count is never negative; whenever the main loop is
\* between two of its steps and some accepted request has not been
\* dispatched, it is at least one; and it is zero once every accepted request
\* has been dispatched.
C20_KeepAliveCoversUndispatched ==
  /\ refs >= 0
  /\ (mainpc = Idle /\ Undispatched # {}) => refs >= 1
  /\ Undispatched = {} => refs = 0

\* C20 witness: between two main-loop steps, one request is answered and
\* deleted and another is still to be dispatched, on a count of one.
C20_Witness ==
  \E r, q \in ReqIds :
    /\ mainpc = Idle /\ refs = 1
    /\ reqs[r].st = "deleted" /\ reqs[q].st = "finished"

====
